---------------------------- MODULE Spec2Model ----------------------------
(***************************************************************************)
(* Model of src/main.rs: a batch of passwords is generated in parallel     *)
(* (rayon), an Argon2id engine is built, every password is salted, hashed  *)
(* and zeroized in parallel, and the hashes are printed.                   *)
(*                                                                         *)
(* Strings are sequences of ASCII codes.  A String buffer is a record      *)
(* [len, mem]: mem is the heap allocation, len the part in use.  The       *)
(* passwords, argon2 and rayon crates are called through their documented  *)
(* contracts; a call that returns a Result may return Err.                 *)
(***************************************************************************)
EXTENDS Integers, Sequences, FiniteSets, TLC

\* ---------------------------------------------------------------- bounds
\* main.rs:20 asks for 16 passwords of length 16; the model scales both.
NumPasswords == 2
PasswordLength == 4
\* Largest policy length tried when generate_password is checked alone.
MaxLen == 5
\* Size of the digest space of the modelled hash primitive.
DigestSpace == 3

\* ------------------------------------------------- configuration constants
MEMORY_COST == 50
TIME_COST == 2
PARALLELISM == 2
OUTPUT_LEN == 32

\* The memory cost is fixed when the program is built.  The model checks the
\* shipped value and the largest value the primitive rejects.
MemoryCostBuilds == {MEMORY_COST, 8 * PARALLELISM - 1}

VARIABLES
    memory_cost,  \* the MEMORY_COST the program was built with
    pc,           \* position of main: "gen", "engine", "hash", "emit", "done"
    st,           \* st[i]: phase of unit i
    buf,          \* buf[i]: String buffer of password i
    salt,         \* salt[i]: SaltString drawn by hashing unit i
    calls,        \* calls[i]: how often unit i called generate_one and hash_password
    answer,       \* answer[i]: what the Argon2 primitive answered unit i
    result,       \* result[i]: what hash_password returned to unit i
    saved,        \* the error rayon's collect has saved for the running stage
    passwords,    \* Vec returned by generate_passwords_using_rayon
    argon2,       \* the engine built by create_argon2
    hashes,       \* Vec bound in the Ok(hashes) arm of main
    emitted,      \* units whose hash the for_each has printed
    stdout,       \* lines printed so far
    exit,         \* "running", "ok" (Ok(())), "err" (Err(e)), "panic"
    err,          \* the error main returned
    call,         \* arguments of a function that is checked alone
    ret           \* its return value

vars == <<memory_cost, calls, pc, st, buf, salt, answer, result, saved, passwords, argon2,
          hashes, emitted, stdout, exit, err, call, ret>>

Units == 1..NumPasswords

\* ------------------------------------------------------------ characters
\* Samples of the character pools of the passwords crate.
NUMBERS == {49, 50}             \* '1' '2'
LOWERCASE_LETTERS == {97, 108}  \* 'a' 'l'
UPPERCASE_LETTERS == {65, 79}   \* 'A' 'O'
SYMBOLS == {33, 124}            \* '!' '|'
SPACE == {32}
SIMILAR == {49, 108, 79, 124}   \* '1' 'l' 'O' '|'

\* char::is_ascii_graphic
IsAsciiGraphic(c) == c >= 33 /\ c <= 126

RECURSIVE SortSet(_)
SortSet(S) ==
    IF S = {} THEN <<>>
    ELSE LET m == CHOOSE x \in S : \A y \in S : x <= y
         IN  <<m>> \o SortSet(S \ {m})

Range(s) == {s[k] : k \in DOMAIN s}

\* ---------------------------------------------------------------- errors
NoError == [kind |-> "none"]
PasswordGenerationError == [kind |-> "PasswordGenerationError"]
HashingError(source, s) == [kind |-> "HashingError", source |-> source, salt |-> s]

\* ------------------------------------------------------- password policy
\* Mutant: the policy also enables spaces.
PasswordGeneratorNewSpaces(length) ==
    [length |-> length, numbers |-> TRUE, lowercase_letters |-> TRUE,
     uppercase_letters |-> TRUE, symbols |-> TRUE, spaces |-> TRUE,
     exclude_similar_characters |-> TRUE, strict |-> TRUE]

\* The PasswordGenerator literal of generate_passwords_using_rayon.
PasswordGeneratorNew(length) ==
    [length |-> length,
     numbers |-> TRUE,
     lowercase_letters |-> TRUE,
     uppercase_letters |-> TRUE,
     symbols |-> TRUE,
     spaces |-> FALSE,
     exclude_similar_characters |-> TRUE,
     strict |-> TRUE]

\* The classes a policy enables, each without the excluded characters.
Sections(pg) ==
    LET cut(S) == IF pg.exclude_similar_characters THEN S \ SIMILAR ELSE S
    IN  {cut(S) : S \in
            (IF pg.numbers THEN {NUMBERS} ELSE {}) \cup
            (IF pg.lowercase_letters THEN {LOWERCASE_LETTERS} ELSE {}) \cup
            (IF pg.uppercase_letters THEN {UPPERCASE_LETTERS} ELSE {}) \cup
            (IF pg.symbols THEN {SYMBOLS} ELSE {}) \cup
            (IF pg.spaces THEN {SPACE} ELSE {})}

Pool(pg) == UNION Sections(pg)

\* PasswordGenerator::generate_one rejects these policies.
Unsatisfiable(pg) ==
    \/ pg.length = 0
    \/ Sections(pg) = {}
    \/ pg.strict /\ pg.length < Cardinality(Sections(pg))

\* What a string returned by generate_one looks like.
Satisfies(pg, s) ==
    /\ Len(s) = pg.length
    /\ Range(s) \subseteq Pool(pg)
    /\ pg.strict => \A S \in Sections(pg) : Range(s) \cap S # {}

\* PasswordGenerator::generate_one: Err, or Ok with any string of the policy.
GenerateOne(pg) ==
    {[ok |-> FALSE, password |-> <<>>]} \cup
    (IF Unsatisfiable(pg) THEN {}
     ELSE {[ok |-> TRUE, password |-> s] :
              s \in {t \in [1..pg.length -> Pool(pg)] : Satisfies(pg, t)}})

\* generate_password: map_err, analyze, score.  The score is a function of
\* the password alone and main drops it, so the model keeps the password.
generate_password(r) ==
    IF r.ok THEN [ok |-> TRUE, password |-> r.password, error |-> NoError]
    ELSE [ok |-> FALSE, password |-> <<>>, error |-> PasswordGenerationError]

\* The strings the random source hands to a unit of the batch: the sorted
\* pool repeated, from its first and from its second character.
RngSample(pg) ==
    LET p == SortSet(Pool(pg))
        n == Len(p)
    IN  IF n = 0 THEN {}
        ELSE {[j \in 1..pg.length |-> p[((j - 1 + k) % n) + 1]] : k \in {0, 1}}

\* ---------------------------------------------------------------- buffers
NoBuffer == [len |-> 0, mem |-> <<>>]
StringFrom(s) == [len |-> Len(s), mem |-> s]
\* str::as_bytes
AsBytes(b) == SubSeq(b.mem, 1, b.len)
\* Mutant: String::clear in place of zeroize, the bytes stay.
ZeroizeClearOnly(b) == [len |-> 0, mem |-> b.mem]
\* String::zeroize: every byte of the allocation becomes 0, the length 0.
Zeroize(b) == [len |-> 0, mem |-> [k \in DOMAIN b.mem |-> 0]]
AllZero(b) == \A k \in DOMAIN b.mem : b.mem[k] = 0


\* ----------------------------------------------------------------- engine
\* argon2::Params::new: the ranges the primitive accepts.
ParamsNew(m_cost, t_cost, p_cost, output_len) ==
    IF m_cost < 8 \/ m_cost < 8 * p_cost THEN [ok |-> FALSE, error |-> "MemoryTooLittle"]
    ELSE IF t_cost < 1 THEN [ok |-> FALSE, error |-> "TimeTooSmall"]
    ELSE IF p_cost < 1 THEN [ok |-> FALSE, error |-> "ThreadsTooFew"]
    ELSE IF output_len < 4 THEN [ok |-> FALSE, error |-> "OutputTooShort"]
    ELSE [ok |-> TRUE,
          params |-> [m_cost |-> m_cost, t_cost |-> t_cost, p_cost |-> p_cost,
                      output_len |-> output_len]]

NoEngine == [algorithm |-> "none"]

\* Mutant: the engine is built for Argon2i.
create_argon2_argon2i(m_cost) ==
    LET p == ParamsNew(m_cost, TIME_COST, PARALLELISM, OUTPUT_LEN)
    IN  IF p.ok
        THEN [panic |-> FALSE,
              argon2 |-> [algorithm |-> "argon2i", version |-> 19, params |-> p.params]]
        ELSE [panic |-> TRUE, argon2 |-> NoEngine]

\* create_argon2: expect() panics on a rejected configuration.
create_argon2(m_cost) ==
    LET p == ParamsNew(m_cost, TIME_COST, PARALLELISM, OUTPUT_LEN)
    IN  IF p.ok
        THEN [panic |-> FALSE,
              argon2 |-> [algorithm |-> "argon2id", version |-> 19, params |-> p.params]]
        ELSE [panic |-> TRUE, argon2 |-> NoEngine]

\* ---------------------------------------------------------------- hashing
\* SaltString::generate: a sample of the salts the OS source can deliver.
SaltStrings == {<<65>>, <<66>>, <<67>>, <<68>>, <<69>>}   \* "A" .. "E"
\* The salts the batch draws from.
BatchSalts == {<<65>>, <<66>>}
NoSalt == <<>>

RECURSIVE SumSeq(_)
SumSeq(s) == IF s = <<>> THEN 0 ELSE Head(s) + SumSeq(Tail(s))

\* The Argon2id digest: a function of password, salt and cost parameters
\* into a finite space, so that different inputs can collide; it is as long
\* as the engine's output length.
Digest(engine, bytes, s) ==
    [len |-> engine.params.output_len,
     value |-> (SumSeq(bytes) + SumSeq(s) + engine.params.m_cost + engine.params.t_cost
                  + engine.params.p_cost) % DigestSpace]

\* What the primitive can answer: a digest, or one of its errors.
PrimitiveOutcomes == {"ok", "Password", "SaltInvalid"}

\* PasswordHash::to_string: the PHC string, field by field.
PasswordHashToString(h) ==
    <<h.algorithm, h.version, h.params.m_cost, h.params.t_cost, h.params.p_cost,
      h.salt, h.hash>>

NoResult == [tag |-> "none"]

\* Mutant: the error keeps the password where the salt belongs.
hash_password_leak(engine, password, s, prim) ==
    IF prim = "ok"
    THEN [tag |-> "ok",
          hash |-> PasswordHashToString(
                     [algorithm |-> engine.algorithm, version |-> engine.version,
                      params |-> engine.params, salt |-> s,
                      hash |-> Digest(engine, password, s)])]
    ELSE [tag |-> "err", error |-> HashingError(prim, password)]

\* Mutant: the salt argument is ignored, every hash uses the same salt.
hash_password_fixed_salt(engine, password, s, prim) ==
    IF prim = "ok"
    THEN [tag |-> "ok",
          hash |-> PasswordHashToString(
                     [algorithm |-> engine.algorithm, version |-> engine.version,
                      params |-> engine.params, salt |-> <<65>>,
                      hash |-> Digest(engine, password, <<65>>)])]
    ELSE [tag |-> "err", error |-> HashingError(prim, s)]

\* hash_password
hash_password(engine, password, s, prim) ==
    IF prim = "ok"
    THEN [tag |-> "ok",
          hash |-> PasswordHashToString(
                     [algorithm |-> engine.algorithm, version |-> engine.version,
                      params |-> engine.params, salt |-> s,
                      hash |-> Digest(engine, password, s)])]
    ELSE [tag |-> "err", error |-> HashingError(prim, s)]

\* ------------------------------------------------------------ fork-join
\* Mutant: the collection forgets the saved error and keeps what it has.
CollectPartial(savedError, items) ==
    [ok |-> TRUE, error |-> NoError, items |-> items]

\* rayon's collect into Result: the saved error wins, else all the items.
Collect(savedError, items) ==
    IF savedError # NoError THEN [ok |-> FALSE, error |-> savedError, items |-> <<>>]
    ELSE [ok |-> TRUE, error |-> NoError, items |-> items]

\* Mutant: every error overwrites the one saved before.
SaveLast(savedError, e) == e

\* The first error to reach the collection is the one it keeps.
Save(savedError, e) == IF savedError = NoError THEN e ELSE savedError

\* ------------------------------------------------------------------ main
\* Mutant: the Err arm returns Ok(()).
PropagateSwallow(r, next) ==
    IF r.ok THEN [pc |-> next, exit |-> "running", err |-> NoError]
    ELSE [pc |-> "done", exit |-> "ok", err |-> NoError]

\* Mutant: the error is dropped and main goes on to its next statement.
PropagateContinue(r, next) == [pc |-> next, exit |-> "running", err |-> NoError]

\* The `?` after generate_passwords_using_rayon and the match on results.
Propagate(r, next) ==
    IF r.ok THEN [pc |-> next, exit |-> "running", err |-> NoError]
    ELSE [pc |-> "done", exit |-> "err", err |-> r.error]

HashLine(h) == [text |-> "Hash output: ", arg |-> h]
LogLine == [text |-> "[LOG] All passwords have been hashed successfully", arg |-> <<>>]
Println(out, line) == Append(out, line)

\* Mutant: the for_each is not joined, one printed hash lets main go on.
ForEachNotJoined(done) == done # {}

\* for_each returns when every hash has been printed.
ForEachDone(done) == done = Units

NoCalls == [gen |-> 0, hash |-> 0]
NoCall == [fn |-> "none"]
NoReturn == [tag |-> "none"]

GenFinished == {"scored", "genfailed", "genskipped"}
\* Mutant: the join waits for units that were dropped unprocessed.
HashFinishedNoDropped == {"yielded"}
HashFinished == {"yielded", "dropped"}

Init ==
    /\ memory_cost \in MemoryCostBuilds
    /\ pc = "gen"
    /\ st = [i \in Units |-> "queued"]
    /\ buf = [i \in Units |-> NoBuffer]
    /\ salt = [i \in Units |-> NoSalt]
    /\ calls = [i \in Units |-> NoCalls]
    /\ answer = [i \in Units |-> "none"]
    /\ result = [i \in Units |-> NoResult]
    /\ saved = NoError
    /\ passwords = <<>>
    /\ argon2 = NoEngine
    /\ hashes = <<>>
    /\ emitted = {}
    /\ stdout = <<>>
    /\ exit = "running"
    /\ err = NoError
    /\ call = NoCall
    /\ ret = NoReturn

\* A generation unit calls generate_one.
Generate(i) ==
    /\ pc = "gen" /\ st[i] = "queued"
    /\ calls' = [calls EXCEPT ![i].gen = @ + 1]
    /\ \E g \in GenerateOne(PasswordGeneratorNew(PasswordLength)) :
          /\ g.ok => g.password \in RngSample(PasswordGeneratorNew(PasswordLength))
          /\ LET r == generate_password(g)
             IN  IF r.ok
                 THEN /\ buf' = [buf EXCEPT ![i] = StringFrom(r.password)]
                      /\ st' = [st EXCEPT ![i] = "generated"]
                      /\ saved' = saved
                 ELSE /\ buf' = buf
                      /\ st' = [st EXCEPT ![i] = "genfailed"]
                      /\ saved' = Save(saved, r.error)
    /\ UNCHANGED <<memory_cost, pc, salt, answer, result, passwords, argon2, hashes,
                   emitted, stdout, exit, err, call, ret>>

\* Mutant: a scored password is thrown away and generated again.
ScoreRegenerate(i) ==
    /\ pc = "gen" /\ st[i] = "generated"
    /\ st' = [st EXCEPT ![i] = "queued"]
    /\ UNCHANGED <<memory_cost, calls, pc, buf, salt, answer, result, saved, passwords,
                   argon2, hashes, emitted, stdout, exit, err, call, ret>>

\* The unit analyzes and scores its password and yields (password, score).
Score(i) ==
    /\ pc = "gen" /\ st[i] = "generated"
    /\ st' = [st EXCEPT ![i] = "scored"]
    /\ UNCHANGED <<memory_cost, calls, pc, buf, salt, answer, result, saved, passwords, argon2,
                   hashes, emitted, stdout, exit, err, call, ret>>

\* Once an error is saved, rayon may drop a unit that has not started.
GenSkip(i) ==
    /\ pc = "gen" /\ st[i] = "queued" /\ saved # NoError
    /\ st' = [st EXCEPT ![i] = "genskipped"]
    /\ UNCHANGED <<memory_cost, calls, pc, buf, salt, answer, result, saved, passwords, argon2,
                   hashes, emitted, stdout, exit, err, call, ret>>

\* The join of the generation stage and the `?` in main.
GenCollect ==
    /\ pc = "gen" /\ \A i \in Units : st[i] \in GenFinished
    /\ LET r == Collect(saved, [i \in Units |-> i])
           p == Propagate(r, "engine")
       IN  /\ passwords' = r.items
           /\ exit' = p.exit
           /\ err' = p.err
           /\ pc' = p.pc
    /\ saved' = NoError
    /\ UNCHANGED <<memory_cost, calls, st, buf, salt, answer, result, argon2, hashes, emitted,
                   stdout, call, ret>>

\* let argon2 = create_argon2();
CreateArgon2 ==
    /\ pc = "engine"
    /\ LET r == create_argon2(memory_cost)
       IN  IF r.panic
           THEN /\ exit' = "panic" /\ pc' = "done" /\ argon2' = argon2
           ELSE /\ exit' = exit /\ pc' = "hash" /\ argon2' = r.argon2
    /\ UNCHANGED <<memory_cost, calls, st, buf, salt, answer, result, saved, passwords, hashes,
                   emitted, stdout, err, call, ret>>

\* Mutant: a unit draws its salt as soon as its own password is scored.
DrawSaltEager(i) ==
    /\ pc \in {"gen", "hash"} /\ st[i] = "scored"
    /\ \E s \in BatchSalts : salt' = [salt EXCEPT ![i] = s]
    /\ st' = [st EXCEPT ![i] = "salted"]
    /\ UNCHANGED <<memory_cost, calls, pc, buf, answer, result, saved, passwords, argon2,
                   hashes, emitted, stdout, exit, err, call, ret>>

\* let salt = SaltString::generate(&mut OsRng);
DrawSalt(i) ==
    /\ pc = "hash" /\ st[i] = "scored"
    /\ \E s \in BatchSalts : salt' = [salt EXCEPT ![i] = s]
    /\ st' = [st EXCEPT ![i] = "salted"]
    /\ UNCHANGED <<memory_cost, calls, pc, buf, answer, result, saved, passwords, argon2, hashes,
                   emitted, stdout, exit, err, call, ret>>

\* Mutant: the closure prints its hash as soon as it has it.
HashAndPrint(i) ==
    /\ pc = "hash" /\ st[i] = "salted"
    /\ calls' = [calls EXCEPT ![i].hash = @ + 1]
    /\ \E prim \in PrimitiveOutcomes :
          LET r == hash_password(argon2, AsBytes(buf[i]), salt[i], prim)
          IN  /\ answer' = [answer EXCEPT ![i] = prim]
              /\ result' = [result EXCEPT ![i] = r]
              /\ stdout' = IF r.tag = "ok" THEN Println(stdout, HashLine(r.hash))
                            ELSE stdout
    /\ st' = [st EXCEPT ![i] = "hashed"]
    /\ UNCHANGED <<memory_cost, pc, buf, salt, saved, passwords, argon2, hashes,
                   emitted, exit, err, call, ret>>

\* let result = hash_password(&argon2, &password, &salt);
Hash(i) ==
    /\ pc = "hash" /\ st[i] = "salted"
    /\ calls' = [calls EXCEPT ![i].hash = @ + 1]
    /\ \E prim \in PrimitiveOutcomes :
          /\ answer' = [answer EXCEPT ![i] = prim]
          /\ result' = [result EXCEPT ![i] =
                           hash_password(argon2, AsBytes(buf[i]), salt[i], prim)]
    /\ st' = [st EXCEPT ![i] = "hashed"]
    /\ UNCHANGED <<memory_cost, pc, buf, salt, saved, passwords, argon2, hashes,
                   emitted, stdout, exit, err, call, ret>>

\* password.zeroize();
Wipe(i) ==
    /\ pc = "hash" /\ st[i] = "hashed"
    /\ buf' = [buf EXCEPT ![i] = Zeroize(buf[i])]
    /\ st' = [st EXCEPT ![i] = "wiped"]
    /\ UNCHANGED <<memory_cost, calls, pc, salt, answer, result, saved, passwords, argon2, hashes,
                   emitted, stdout, exit, err, call, ret>>

\* The closure returns result to the collection.
Yield(i) ==
    /\ pc = "hash" /\ st[i] = "wiped"
    /\ saved' = IF result[i].tag = "err" THEN Save(saved, result[i].error) ELSE saved
    /\ st' = [st EXCEPT ![i] = "yielded"]
    /\ UNCHANGED <<memory_cost, calls, pc, buf, salt, answer, result, passwords, argon2, hashes,
                   emitted, stdout, exit, err, call, ret>>

\* Once an error is saved, rayon may drop a password whose unit has not
\* started: the String is freed as it is.
HashSkip(i) ==
    /\ pc = "hash" /\ st[i] = "scored" /\ saved # NoError
    /\ st' = [st EXCEPT ![i] = "dropped"]
    /\ UNCHANGED <<memory_cost, calls, pc, buf, salt, answer, result, saved, passwords, argon2,
                   hashes, emitted, stdout, exit, err, call, ret>>

\* The join of the hashing stage and the match on results.
HashCollect ==
    /\ pc = "hash" /\ \A i \in Units : st[i] \in HashFinished
    /\ LET r == Collect(saved, [i \in Units |-> IF result[i].tag = "ok"
                                                 THEN result[i].hash ELSE <<>>])
           p == Propagate(r, "emit")
       IN  /\ hashes' = r.items
           /\ exit' = p.exit
           /\ err' = p.err
           /\ pc' = p.pc
    /\ saved' = NoError
    /\ UNCHANGED <<memory_cost, calls, st, buf, salt, answer, result, passwords, argon2, emitted,
                   stdout, call, ret>>

\* One step of hashes.into_par_iter().for_each(println!).
Emit(i) ==
    /\ pc = "emit" /\ i \in DOMAIN hashes /\ i \notin emitted
    /\ stdout' = Println(stdout, HashLine(hashes[i]))
    /\ emitted' = emitted \cup {i}
    /\ st' = [st EXCEPT ![i] = "emitted"]
    /\ UNCHANGED <<memory_cost, calls, pc, buf, salt, answer, result, saved, passwords, argon2,
                   hashes, exit, err, call, ret>>

\* The completion line and Ok(()).
Log ==
    /\ pc = "emit" /\ ForEachDone(emitted)
    /\ stdout' = Println(stdout, LogLine)
    /\ exit' = "ok"
    /\ pc' = "done"
    /\ UNCHANGED <<memory_cost, calls, st, buf, salt, answer, result, saved, passwords, argon2,
                   hashes, emitted, err, call, ret>>

Next ==
    \/ \E i \in Units : Generate(i)
    \/ \E i \in Units : Score(i)
    \/ \E i \in Units : GenSkip(i)
    \/ GenCollect
    \/ CreateArgon2
    \/ \E i \in Units : DrawSalt(i)
    \/ \E i \in Units : Hash(i)
    \/ \E i \in Units : Wipe(i)
    \/ \E i \in Units : Yield(i)
    \/ \E i \in Units : HashSkip(i)
    \/ HashCollect
    \/ \E i \in Units : Emit(i)
    \/ Log

Spec == Init /\ [][Next]_vars

\* rayon's pool runs every queued closure and main runs on after each join:
\* a step that stays possible is eventually taken.
LiveSpec == Spec /\ WF_vars(Next)

\* ------------------------------------------- generate_password on its own
\* The batch at rest while one function is called.
AtRest ==
    /\ memory_cost = MEMORY_COST
    /\ pc = "call"
    /\ st = [i \in Units |-> "queued"]
    /\ buf = [i \in Units |-> NoBuffer]
    /\ salt = [i \in Units |-> NoSalt]
    /\ calls = [i \in Units |-> NoCalls]
    /\ answer = [i \in Units |-> "none"]
    /\ result = [i \in Units |-> NoResult]
    /\ saved = NoError
    /\ passwords = <<>>
    /\ argon2 = NoEngine
    /\ hashes = <<>>
    /\ emitted = {}
    /\ stdout = <<>>
    /\ exit = "running"
    /\ err = NoError

batch == <<memory_cost, calls, pc, st, buf, salt, answer, result, saved, passwords,
           argon2, hashes, emitted, stdout, exit, err>>

InitGen ==
    /\ AtRest
    /\ \E length \in 0..MaxLen :
          call = [fn |-> "generate_password", pg |-> PasswordGeneratorNew(length)]
    /\ ret = NoReturn

CallGeneratePassword ==
    /\ call.fn = "generate_password" /\ ret = NoReturn
    /\ \E g \in GenerateOne(call.pg) :
          ret' = [tag |-> "returned", value |-> generate_password(g)]
    /\ UNCHANGED <<batch, call>>

SpecGen == InitGen /\ [][CallGeneratePassword]_vars

\* ----------------------------------------------- hash_password on its own
\* One password is hashed under two salts by the engine main builds.
InitHash ==
    /\ AtRest
    /\ \E p \in RngSample(PasswordGeneratorNew(PasswordLength)) :
       \E a \in SaltStrings : \E b \in SaltStrings :
          call = [fn |-> "hash_password", password |-> p, salt_a |-> a, salt_b |-> b]
    /\ ret = NoReturn

CallHashPassword ==
    /\ call.fn = "hash_password" /\ ret = NoReturn
    /\ \E pa \in PrimitiveOutcomes : \E pb \in PrimitiveOutcomes :
          LET engine == create_argon2(MEMORY_COST).argon2
          IN  ret' = [tag |-> "returned",
                      a |-> hash_password(engine, call.password, call.salt_a, pa),
                      b |-> hash_password(engine, call.password, call.salt_b, pb)]
    /\ UNCHANGED <<batch, call>>

SpecHash == InitHash /\ [][CallHashPassword]_vars

\* ----------------------------------------------------------------- claims
GenFailed(i) == st[i] = "genfailed"
HashFailed(i) == result[i].tag = "err"
HashOk(i) == result[i].tag = "ok"
UnitFailed == \E i \in Units : GenFailed(i) \/ HashFailed(i)
HashLines == {k \in DOMAIN stdout : stdout[k].text = HashLine(<<>>).text}

\* C1: a batch run is all-or-nothing.  A run that returns success has hashed
\* every unit and holds exactly NumPasswords hash records, one per unit; a
\* finished run in which every unit was hashed successfully returns success;
\* and once any generation or hashing unit has failed, the run never returns
\* success and no hash record, collected or printed, reaches the caller.
C1_AllOrNothing ==
    /\ exit = "ok" =>
          /\ \A i \in Units : HashOk(i)
          /\ Len(hashes) = NumPasswords
          /\ \A i \in Units : hashes[i] = result[i].hash
    /\ (pc = "done" /\ \A i \in Units : HashOk(i)) => exit = "ok"
    /\ UnitFailed =>
          /\ exit # "ok"
          /\ hashes = <<>>
          /\ HashLines = {}
          /\ pc = "done" => exit = "err"

\* A unit was hashed, another failed, and the run ended with nothing.
C1_Witness ==
    /\ pc = "done" /\ exit = "err"
    /\ \E i \in Units : \E j \in Units : HashOk(i) /\ HashFailed(j)

\* C2: when the run has terminated, every password buffer that was
\* generated holds only zero bytes.
C2_ErasedOnEveryExit ==
    pc = "done" => \A i \in Units : AllZero(buf[i])

\* C3: a hashing unit whose hash call returned, with a hash or with a
\* HashingError, yields its result only with its password buffer all zero.
C3_WipedBeforeYield ==
    \A i \in Units :
        st[i] \in {"yielded", "emitted"} =>
            /\ result[i].tag \in {"ok", "err"}
            /\ Len(buf[i].mem) = PasswordLength
            /\ AllZero(buf[i])
            /\ buf[i].len = 0

\* A unit whose hash call failed has yielded.
C3_Witness ==
    \E i \in Units : st[i] = "yielded" /\ HashFailed(i) /\ buf[i].mem # <<>>

\* C4: when the engine configuration is rejected, no generation unit and no
\* hashing unit has started.
C4_ParamErrorBeforeBatch ==
    exit = "panic" => \A i \in Units : st[i] = "queued" /\ buf[i] = NoBuffer

\* C5: a failed run prints nothing, and whatever is printed is printed after
\* the hashing stage was collected with every unit hashed.
C5_NoOutputOnFailure ==
    /\ exit \in {"err", "panic"} => stdout = <<>>
    /\ UnitFailed => stdout = <<>>
    /\ stdout # <<>> =>
          /\ pc \in {"emit", "done"}
          /\ Len(hashes) = NumPasswords
          /\ \A i \in Units : st[i] \in {"yielded", "emitted"} /\ HashOk(i)

\* A run failed after one of its units had its hash.
C5_Witness ==
    /\ pc = "done" /\ exit = "err" /\ err.kind = "HashingError"
    /\ \E i \in Units : HashOk(i)

\* C6: a successful run has printed every hash record as exactly one line, in
\* some order, and the completion line after them; the completion line is
\* never printed before all the hash lines.
C6_EachHashOnceThenLog ==
    /\ exit = "ok" =>
          /\ Len(stdout) = NumPasswords + 1
          /\ stdout[NumPasswords + 1] = LogLine
          /\ \E f \in Permutations(Units) :
                \A i \in Units : stdout[f[i]] = HashLine(hashes[i])
    /\ \A k \in DOMAIN stdout :
          stdout[k].text = LogLine.text => k = NumPasswords + 1 /\ exit = "ok"
    /\ \A k \in DOMAIN stdout :
          k <= NumPasswords => stdout[k].text = HashLine(<<>>).text

\* A successful run printed the hash of the last unit first.
C6_Witness ==
    /\ exit = "ok"
    /\ stdout[1] = HashLine(hashes[NumPasswords])
    /\ hashes[NumPasswords] # hashes[1]

GenerationErrorOccurred == \E i \in Units : GenFailed(i)
HashingErrorOccurred == \E i \in Units : HashFailed(i)
\* The engine was asked for and the primitive rejected its configuration.
ParamErrorOccurred ==
    /\ passwords # <<>> /\ pc \notin {"gen", "engine"}
    /\ ~ParamsNew(memory_cost, TIME_COST, PARALLELISM, OUTPUT_LEN).ok

\* C7: a terminated run signals failure exactly when a GenerationError, a
\* HashingError or a ParamError occurred in it, and success otherwise.
C7_ExitSignal ==
    pc = "done" =>
        /\ exit \in {"ok", "err", "panic"}
        /\ exit \in {"err", "panic"} <=>
              (GenerationErrorOccurred \/ HashingErrorOccurred \/ ParamErrorOccurred)
        /\ exit = "panic" <=> ParamErrorOccurred
        /\ exit = "err" => err.kind \in {"PasswordGenerationError", "HashingError"}

\* A run ended by the rejected configuration.
C7_Witness == pc = "done" /\ exit = "panic" /\ ParamErrorOccurred

\* C8: a HashingError carries exactly the salt its unit drew and the cause the
\* primitive gave, nothing else, and its salt is not the password.
C8_ErrorCarriesSalt ==
    \A i \in Units :
        HashFailed(i) =>
            /\ DOMAIN result[i].error = {"kind", "source", "salt"}
            /\ result[i].error.kind = "HashingError"
            /\ result[i].error.salt = salt[i]
            /\ result[i].error.salt \in BatchSalts
            /\ result[i].error.source = answer[i]
            /\ answer[i] \in PrimitiveOutcomes \ {"ok"}
            /\ st[i] = "hashed" => result[i].error.salt # AsBytes(buf[i])

\* The run returned the HashingError of a unit, with that unit's salt.
C8_Witness ==
    /\ pc = "done" /\ err.kind = "HashingError"
    /\ \E i \in Units : HashFailed(i) /\ err = result[i].error /\ err.salt = salt[i]

\* The raw classes a policy enables.
EnabledClasses(pg) ==
    (IF pg.numbers THEN NUMBERS ELSE {}) \cup
    (IF pg.lowercase_letters THEN LOWERCASE_LETTERS ELSE {}) \cup
    (IF pg.uppercase_letters THEN UPPERCASE_LETTERS ELSE {}) \cup
    (IF pg.symbols THEN SYMBOLS ELSE {})

\* C9: a successful generate_password returns a password of exactly the
\* policy's length whose characters are all printable, non-space ASCII and
\* all from the enabled classes.
C9_LengthAndCharset ==
    (call.fn = "generate_password" /\ ret.tag = "returned" /\ ret.value.ok) =>
        /\ Len(ret.value.password) = call.pg.length
        /\ \A k \in DOMAIN ret.value.password :
              /\ IsAsciiGraphic(ret.value.password[k])
              /\ ret.value.password[k] \in EnabledClasses(call.pg)

\* A password of the longest length was returned.
C9_Witness ==
    /\ call.fn = "generate_password" /\ ret.tag = "returned" /\ ret.value.ok
    /\ Len(ret.value.password) = MaxLen

\* C10: one password hashed by one engine under two different salts gives
\* two different hash records.
C10_SaltsSeparateHashes ==
    (call.fn = "hash_password" /\ ret.tag = "returned"
       /\ ret.a.tag = "ok" /\ ret.b.tag = "ok" /\ call.salt_a # call.salt_b)
    => ret.a.hash # ret.b.hash

\* Two different salts gave the same digest.
C10_Witness ==
    /\ call.fn = "hash_password" /\ ret.tag = "returned"
    /\ ret.a.tag = "ok" /\ ret.b.tag = "ok" /\ call.salt_a # call.salt_b
    /\ ret.a.hash[7] = ret.b.hash[7]

HashStarted(i) ==
    \/ salt[i] # NoSalt
    \/ calls[i].hash > 0
    \/ st[i] \in {"salted", "hashed", "wiped", "yielded", "emitted"}
GenUnfinished(i) == st[i] \in {"queued", "generated"}

\* C11: no hashing unit has drawn a salt or called the hash while any
\* generation unit is unfinished or the generation stage is not yet joined.
C11_StagesInSequence ==
    (\E i \in Units : HashStarted(i)) =>
        /\ pc \notin {"gen", "engine"}
        /\ \A j \in Units : ~GenUnfinished(j) /\ calls[j].gen = 1

\* Inside the hashing stage one unit has its hash while another only has
\* its salt.
C11_Witness ==
    \E i \in Units : \E j \in Units : st[i] = "hashed" /\ st[j] = "salted"

\* The steps a unit can take: generate, score, hash, erase, and its ends.
LifecycleEdges ==
    {<<"queued", "generated">>, <<"queued", "genfailed">>, <<"queued", "genskipped">>,
     <<"generated", "scored">>, <<"scored", "salted">>, <<"scored", "dropped">>,
     <<"salted", "hashed">>, <<"hashed", "wiped">>, <<"wiped", "yielded">>,
     <<"yielded", "emitted">>}

\* C12: a unit only ever steps forward along generate, score, hash, erase
\* (no step leads back to a phase it has left), and when the run has ended
\* every unit's hash record is printed or the run has propagated an error.
C12_LinearLifecycle ==
    /\ [][\A i \in Units :
             st'[i] # st[i] => <<st[i], st'[i]>> \in LifecycleEdges]_vars
    /\ [](pc = "done" =>
             \/ exit \in {"err", "panic"}
             \/ /\ exit = "ok"
                /\ \A i \in Units :
                      st[i] = "emitted" /\ \E k \in DOMAIN stdout :
                                              stdout[k] = HashLine(result[i].hash))

\* A run ended with every unit through all its phases and printed.
C12_Witness ==
    pc = "done" /\ \A i \in Units : st[i] = "emitted" /\ calls[i] = [gen |-> 1, hash |-> 1]

\* No hash and no score is applied to a buffer whose wipe has begun: a
\* zeroed buffer belongs to a unit past its hash call, hashed once.
NoReadAfterWipe ==
    \A i \in Units :
        (buf[i] # NoBuffer /\ AllZero(buf[i])) =>
            st[i] \in {"wiped", "yielded", "emitted"} /\ calls[i] = [gen |-> 1, hash |-> 1]

\* C13: every generated password is passed to the hashing engine exactly
\* once and is then wiped (by the end of the run it has been hashed once and
\* is zero), it is never hashed twice, and no operation reads it once its
\* wipe has begun.
C13_HashedOnceThenWiped ==
    /\ \A i \in Units : calls[i].hash <= 1
    /\ NoReadAfterWipe
    /\ pc = "done" =>
          \A i \in Units :
              buf[i] # NoBuffer => calls[i].hash = 1 /\ AllZero(buf[i])

\* C14: no unit calls generate_one or hash_password a second time; the error
\* a stage keeps is the error of the first failed unit to reach the
\* collection and is never replaced or joined by a later one; the error the
\* run returns is that one error, of a unit that did fail; and a failed run
\* keeps no hash of the units that succeeded.
C14_FirstErrorOnly ==
    /\ [](\A i \in Units : calls[i].gen <= 1 /\ calls[i].hash <= 1)
    /\ [][\A i \in Units :
             (st[i] = "wiped" /\ st'[i] = "yielded" /\ HashFailed(i) /\ saved = NoError)
                => saved' = result[i].error]_vars
    /\ [][(saved # NoError /\ pc' = pc) => saved' = saved]_vars
    /\ [][(saved # NoError /\ pc' # pc) => (pc' = "done" /\ exit' = "err" /\ err' = saved)]_vars
    /\ [](exit = "err" =>
             /\ \/ err = PasswordGenerationError /\ \E i \in Units : GenFailed(i)
                \/ \E i \in Units : st[i] = "yielded" /\ HashFailed(i) /\ err = result[i].error
             /\ hashes = <<>>
             /\ stdout = <<>>)

\* Two units failed with different errors and the run returned one of them.
C14_Witness ==
    /\ pc = "done" /\ exit = "err"
    /\ \E i \in Units : \E j \in Units :
          /\ HashFailed(i) /\ HashFailed(j) /\ st[j] = "yielded"
          /\ err = result[i].error /\ err # result[j].error

\* C15: once a generation unit has failed, the run goes from the generation
\* stage straight to its end: no engine is built, no salt is drawn, no hash
\* is computed, and the run returns the PasswordGenerationError.
C15_GenerationErrorAborts ==
    (\E i \in Units : GenFailed(i)) =>
        /\ pc \in {"gen", "done"}
        /\ argon2 = NoEngine
        /\ \A j \in Units : salt[j] = NoSalt /\ calls[j].hash = 0 /\ result[j] = NoResult
        /\ pc = "gen" => saved = PasswordGenerationError
        /\ pc = "done" =>
              exit = "err" /\ err = PasswordGenerationError /\ passwords = <<>>

\* A run returned the generation error although another unit had its
\* password generated and scored.
C15_Witness ==
    /\ pc = "done" /\ err = PasswordGenerationError
    /\ \E i \in Units : \E j \in Units : GenFailed(i) /\ st[j] = "scored"

\* The engine main.rs configures: Argon2id, version 0x13, m=50, t=2, p=2,
\* 32 bytes of output.
ShippedEngine ==
    [algorithm |-> "argon2id", version |-> 19,
     params |-> [m_cost |-> 50, t_cost |-> 2, p_cost |-> 2, output_len |-> 32]]

EmbedsEngineAndSalt(h, s) ==
    /\ h[1] = ShippedEngine.algorithm
    /\ h[2] = ShippedEngine.version
    /\ <<h[3], h[4], h[5]>> = <<ShippedEngine.params.m_cost, ShippedEngine.params.t_cost,
                                ShippedEngine.params.p_cost>>
    /\ h[6] = s
    /\ h[7].len = ShippedEngine.params.output_len

\* C17: the run has at most one engine, the one configured in main.rs, which
\* no hashing unit changes; and every hash record, as returned, collected and
\* printed, carries that engine's algorithm, version and cost parameters, a
\* digest of the engine's output length, and the salt its own unit drew.
C17_RecordEmbedsConfig ==
    /\ argon2 \in {NoEngine, ShippedEngine}
    /\ (\E i \in Units : HashStarted(i)) => argon2 = ShippedEngine
    /\ \A i \in Units : HashOk(i) => EmbedsEngineAndSalt(result[i].hash, salt[i])
    /\ \A i \in DOMAIN hashes : EmbedsEngineAndSalt(hashes[i], salt[i])
    /\ \A k \in HashLines :
          \E i \in Units : stdout[k].arg = result[i].hash
                           /\ EmbedsEngineAndSalt(stdout[k].arg, salt[i])

\* Two units with different salts had their records printed.
C17_Witness ==
    /\ Cardinality(HashLines) = NumPasswords
    /\ \E i \in Units : \E j \in Units : HashOk(i) /\ HashOk(j) /\ salt[i] # salt[j]

\* The run is over: it succeeded with every record and the completion line
\* printed, or it failed.
Terminated ==
    /\ pc = "done"
    /\ \/ exit \in {"err", "panic"}
       \/ /\ exit = "ok"
          /\ emitted = Units
          /\ Len(stdout) = NumPasswords + 1
          /\ stdout[NumPasswords + 1] = LogLine

\* C18: under fair scheduling every run eventually terminates, in success or
\* in failure, whatever units fail and however the units interleave.
C18_Terminates == <>Terminated

\* A run ended although a unit was dropped before it started hashing.
C18_Witness == Terminated /\ \E i \in Units : st[i] = "dropped"

=============================================================================
